---- MODULE Spec2Model ----
(***************************************************************************)
(* Model of python/medifor/v1/analyticservice.py: the endpoint registry    *)
(* and dispatch core (AnalyticService) and the named-pipe transport        *)
(* (AnalyticServiceFIFO), together with the peer process at the other end  *)
(* of the two FIFOs.                                                       *)
(***************************************************************************)
EXTENDS Integers, Sequences, FiniteSets, TLC

\* ------------------------------------------------------------------ bounds
\* Largest number of serveOnce steps started.
MaxSteps == 2
\* Largest number of request lines the peer writes.
MaxLines == 2
\* Largest time (in ticks) a blocked call is followed for.
MaxWait == 2
\* Lines the outbound FIFO holds before a writer has to wait.
OutCap == 1
\* Largest number of close() calls made (those ending Run included).
MaxCloses == 2
\* Largest number of Start() calls made.
MaxStarts == 2

\* --------------------------------------------------------------- constants
None == "None"

IMAGE_MANIPULATION == "ImageManipulation"
VIDEO_MANIPULATION == "VideoManipulation"
IMAGE_SPLICE == "ImageSplice"
IMAGE_CAMERA_MATCH == "ImageCameraMatch"

ALLOWED_IMPLS == {IMAGE_MANIPULATION, VIDEO_MANIPULATION, IMAGE_SPLICE, IMAGE_CAMERA_MATCH}

\* grpc.StatusCode members used by _CallEndpoint.
UNIMPLEMENTED == "UNIMPLEMENTED"
INVALID_ARGUMENT == "INVALID_ARGUMENT"
UNKNOWN == "UNKNOWN"

\* AnalyticServiceFIFO.TYPES: short wire code -> endpoint type.
TYPES ==
  [c \in {"imgmanip", "vidmanip", "imgsplice", "imgcammatch"} |->
     CASE c = "imgmanip" -> IMAGE_MANIPULATION
       [] c = "vidmanip" -> VIDEO_MANIPULATION
       [] c = "imgsplice" -> IMAGE_SPLICE
       [] c = "imgcammatch" -> IMAGE_CAMERA_MATCH]

\* ------------------------------------------------------------ input sets
\* Handler functions the embedding program registers.
Handlers == {"f", "g"}
\* Type names _RegisterImpl is called with: the endpoint types and a name
\* outside the enumeration.
RegisterTypes == ALLOWED_IMPLS \cup {"AudioManipulation"}
\* What the program that serves over the pipes registers: one handler for one
\* endpoint type; requests that arrive before it is registered find no handler.
PipeRegisterTypes == {IMAGE_MANIPULATION}
PipeHandlers == {"f"}
\* Fields of a response message and their values; 0 is the proto3 default.
Fields == {"score"}
FieldValues == {0, 1}
Messages == [Fields -> FieldValues]
\* A fresh message, as built by makeResp().
ZeroMessage == [f \in Fields |-> 0]
\* What a handler may do with (req, resp): fill the response, and either
\* return or raise an exception of some class with a message.
FailureClasses == {"ValueError", "NotImplementedError", "RuntimeError"}
Behaviours ==
  [fail : {"none"} \cup FailureClasses, msg : {"bad crop"}, fill : Messages]

\* ------------------------------------------------------- pure functions
\* Whether x is one of the parts of the string s ("x in s").
RECURSIVE SeqContains(_, _)
SeqContains(s, x) ==
  IF s = <<>> THEN FALSE
  ELSE IF Head(s) = x THEN TRUE ELSE SeqContains(Tail(s), x)

\* str() left out: the bare member name.
StrCodeName(code) == code

\* str(code) of a grpc.StatusCode member.
StrCode(code) ==
  CASE code = UNIMPLEMENTED -> "StatusCode.UNIMPLEMENTED"
    [] code = INVALID_ARGUMENT -> "StatusCode.INVALID_ARGUMENT"
    [] code = UNKNOWN -> "StatusCode.UNKNOWN"

\* json_format.MessageToDict: fields holding the default value are left out.
MessageToDict(m) ==
  LET set == {f \in DOMAIN m : m[f] # 0}
  IN  [f \in set |-> m[f]]

\* json_format.ParseDict(d, msg): the fields present in d are set on msg.
ParseDict(d, m) ==
  [f \in DOMAIN m |-> IF f \in DOMAIN d THEN d[f] ELSE m[f]]

\* _RegisterImpl without the "already present" check: the entry is replaced.
RegisterImplOverwrite(impls, type_name, f) ==
  IF type_name \notin ALLOWED_IMPLS
  THEN [impls |-> impls, raised |-> "UnknownType"]
  ELSE [impls |-> [t \in DOMAIN impls \cup {type_name} |->
                     IF t = type_name THEN f ELSE impls[t]],
        raised |-> "none"]

\* _RegisterImpl without the _ALLOWED_IMPLS check.
RegisterImplNoTypeCheck(impls, type_name, f) ==
  IF type_name \in DOMAIN impls
  THEN [impls |-> impls, raised |-> "AlreadyRegistered"]
  ELSE [impls |-> [t \in DOMAIN impls \cup {type_name} |->
                     IF t = type_name THEN f ELSE impls[t]],
        raised |-> "none"]

\* _RegisterImpl: both failures are ValueError in the source, told apart by
\* their message; the names are those of the specification.
RegisterImpl(impls, type_name, f) ==
  IF type_name \notin ALLOWED_IMPLS
  THEN [impls |-> impls, raised |-> "UnknownType"]
  ELSE IF type_name \in DOMAIN impls
  THEN [impls |-> impls, raised |-> "AlreadyRegistered"]
  ELSE [impls |-> [t \in DOMAIN impls \cup {type_name} |->
                     IF t = type_name THEN f ELSE impls[t]],
        raised |-> "none"]

\* A context whose abort records the failure and returns.
CtxAbortReturns == FALSE

\* ctx.abort raises (FIFOContext.abort raises FIFOContextAbortedError, the
\* grpc context raises as well), so the code after it does not run.
CtxAbortRaises == TRUE

\* "except Exception" placed first: it catches every failure.
ExceptClauseCatchAll(cls) == UNKNOWN

\* The except clause that catches a handler failure of class cls.
ExceptClause(cls) ==
  IF cls = "ValueError" THEN INVALID_ARGUMENT
  ELSE IF cls = "NotImplementedError" THEN UNIMPLEMENTED
  ELSE UNKNOWN

\* The details string of the abort made for code, as a sequence of parts.
AbortDetails(code, ep_type, msg) ==
  CASE code = INVALID_ARGUMENT -> <<"Endpoint", ep_type, "invalid input:", msg>>
    [] code = UNIMPLEMENTED -> <<"Endpoint", ep_type, "not implemented:", msg>>
    [] code = UNKNOWN -> <<"Error processing endpoint", ep_type, "Traceback", msg>>

\* _CallEndpoint with a handler that failed called a second time.
CallEndpointRetry(impls, ep_type, resp, b) ==
  LET ep_func == IF ep_type \in DOMAIN impls THEN impls[ep_type] ELSE None
      absent == ep_func = None
      a1 == IF absent
            THEN <<[code |-> UNIMPLEMENTED,
                    details |-> <<"Endpoint", ep_type, "not implemented">>]>>
            ELSE <<>>
  IN  IF absent /\ CtxAbortRaises
      THEN [invoked |-> <<>>, aborts |-> a1, raised |-> TRUE, resp |-> resp]
      ELSE
        LET cls == IF absent THEN "TypeError" ELSE b.fail
            msg == IF absent THEN "not callable" ELSE b.msg
            inv == IF absent THEN <<>>
                   ELSE IF b.fail = "none" THEN <<ep_func>> ELSE <<ep_func, ep_func>>
            filled == IF absent THEN resp ELSE b.fill
            a2 == IF cls = "none" THEN a1
                  ELSE Append(a1, [code |-> ExceptClause(cls),
                                   details |-> AbortDetails(ExceptClause(cls), ep_type, msg)])
        IN  [invoked |-> inv, aborts |-> a2,
             raised |-> (cls # "none" /\ CtxAbortRaises), resp |-> filled]

\* _CallEndpoint(ep_type, req, resp, ctx) with a handler behaving as b.
\* invoked: the handlers called, in order; aborts: the ctx.abort calls, in
\* order; raised: whether the call left by the abort's exception; resp: the
\* response object after the call.
CallEndpoint(impls, ep_type, resp, b) ==
  LET ep_func == IF ep_type \in DOMAIN impls THEN impls[ep_type] ELSE None
      absent == ep_func = None
      a1 == IF absent
            THEN <<[code |-> UNIMPLEMENTED,
                    details |-> <<"Endpoint", ep_type, "not implemented">>]>>
            ELSE <<>>
  IN  IF absent /\ CtxAbortRaises
      THEN [invoked |-> <<>>, aborts |-> a1, raised |-> TRUE, resp |-> resp]
      ELSE
        \* calling None raises TypeError, caught by "except Exception"
        LET cls == IF absent THEN "TypeError" ELSE b.fail
            msg == IF absent THEN "not callable" ELSE b.msg
            inv == IF absent THEN <<>> ELSE <<ep_func>>
            filled == IF absent THEN resp ELSE b.fill
            a2 == IF cls = "none" THEN a1
                  ELSE Append(a1, [code |-> ExceptClause(cls),
                                   details |-> AbortDetails(ExceptClause(cls), ep_type, msg)])
        IN  [invoked |-> inv, aborts |-> a2,
             raised |-> (cls # "none" /\ CtxAbortRaises), resp |-> filled]


\* ------------------------------------------------------------ wire lines
\* Lines on the inbound FIFO.  kind: what json.loads makes of the line
\* ("notjson", "scalar" for a JSON value that is no object, "object");
\* type, value: the fields of a JSON object ("absent" when missing, value
\* "undecodable" when it does not fit the request message).
NoLine == [kind |-> "none", type |-> "absent", value |-> "absent"]
\* The empty string readline() returns at end-of-stream.
EofLine == [kind |-> "eof", type |-> "absent", value |-> "absent"]
\* The request lines the peer writes.
PeerLines ==
  { [kind |-> "notjson", type |-> "absent", value |-> "absent"],
    [kind |-> "object", type |-> "absent", value |-> "ok"],
    [kind |-> "object", type |-> "bogus", value |-> "ok"],
    [kind |-> "object", type |-> "imgmanip", value |-> "undecodable"],
    [kind |-> "object", type |-> "imgmanip", value |-> "ok"] }

\* The same with msg.get("type", "imgmanip") in place of the "type" check.
ParseRequestDefaultType(l) ==
  IF l.kind \in {"eof", "notjson"}
  THEN [error |-> "JSONDecodeError", callType |-> None]
  ELSE IF l.kind = "scalar"
  THEN [error |-> "TypeError", callType |-> None]
  ELSE IF l.type # "absent" /\ l.type \notin DOMAIN TYPES
  THEN [error |-> "KeyError", callType |-> None]
  ELSE LET c == IF l.type = "absent" THEN "imgmanip" ELSE l.type
       IN  IF l.value = "absent"
           THEN [error |-> "KeyError", callType |-> TYPES[c]]
           ELSE IF l.value = "undecodable"
           THEN [error |-> "ParseError", callType |-> TYPES[c]]
           ELSE [error |-> "none", callType |-> TYPES[c]]

\* The same with a ParseDict that lets a value pass that does not fit.
ParseRequestLenient(l) ==
  IF l.kind \in {"eof", "notjson"}
  THEN [error |-> "JSONDecodeError", callType |-> None]
  ELSE IF l.kind = "scalar"
  THEN [error |-> "TypeError", callType |-> None]
  ELSE IF l.type = "absent"
  THEN [error |-> "ValueError", callType |-> None]
  ELSE IF l.type \notin DOMAIN TYPES
  THEN [error |-> "KeyError", callType |-> None]
  ELSE IF l.value = "absent"
  THEN [error |-> "KeyError", callType |-> TYPES[l.type]]
  ELSE [error |-> "none", callType |-> TYPES[l.type]]

\* Lines 249-255 of serveOnce: the exception raised before dispatch, or
\* "none" and the endpoint type to call.
ParseRequest(l) ==
  IF l.kind \in {"eof", "notjson"}
  THEN [error |-> "JSONDecodeError", callType |-> None]
  ELSE IF l.kind = "scalar"
  THEN [error |-> "TypeError", callType |-> None]
  ELSE IF l.type = "absent"
  THEN [error |-> "ValueError", callType |-> None]
  ELSE IF l.type \notin DOMAIN TYPES
  THEN [error |-> "KeyError", callType |-> None]
  ELSE IF l.value = "absent"
  THEN [error |-> "KeyError", callType |-> TYPES[l.type]]
  ELSE IF l.value = "undecodable"
  THEN [error |-> "ParseError", callType |-> TYPES[l.type]]
  ELSE [error |-> "none", callType |-> TYPES[l.type]]

\* The success line built from a fresh response instead of the handler's.
OkLineFresh(resp) == [code |-> "OK", value |-> MessageToDict(ZeroMessage)]

\* The success line serveOnce builds (json.dumps of a dict).
OkLine(resp) == [code |-> "OK", value |-> MessageToDict(resp)]

\* The abort line with the exception's text in place of its details.
AbortLineText(e) ==
  [code |-> StrCode(e.code), value |-> <<"Context aborted with code:", e.code>>]

\* The abort line serveOnce builds.
AbortLine(e) == [code |-> StrCode(e.code), value |-> e.details]

\* --------------------------------------------------------- file objects
\* A close() that does not look at the handle first.
TruthyAlways(h) == TRUE

\* "if self.receiver:" - a file object is true whether open or closed.
Truthy(h) == h # None
\* A close that fails on a handle closed before, as os.close() does.
FileCloseRaisesTwice(h) == h = "closed"

\* file.close(): closing a closed file object is allowed and does nothing.
FileCloseRaises(h) == FALSE
FileClose(h) == "closed"

\* ------------------------------------------------------ network server
SERVING == "SERVING"

\* What is known of the network server.  pc: the statement Start() is at
\* ("idle" outside a call); binds: the add_insecure_port calls of the current
\* Start(); bound, started: whether its server has its port and has been
\* started; health: the status this service has set for the service name ''
\* on its HealthServicer (None: no set() call yet); result: how the last
\* Start() ended; starts, failures: the Start() calls so far and those of
\* them that raised.
NoServer == [pc |-> "idle", binds |-> 0, bound |-> FALSE, started |-> FALSE,
             health |-> None, result |-> "none", starts |-> 0, failures |-> 0]

\* Start() with the health status set as soon as the server object exists.
StartStepServingFirst(n, portFree) ==
  CASE n.pc = "idle" ->
         [n EXCEPT !.pc = "bind", !.binds = 0, !.bound = FALSE, !.started = FALSE,
                   !.result = "pending", !.starts = @ + 1]
    [] n.pc = "bind" ->
         IF portFree
         THEN [n EXCEPT !.pc = "start", !.binds = @ + 1, !.bound = TRUE,
                        !.health = SERVING]
         ELSE [n EXCEPT !.pc = "idle", !.binds = @ + 1, !.result = "RuntimeError",
                        !.failures = @ + 1, !.health = SERVING]
    [] n.pc = "start" -> [n EXCEPT !.pc = "set", !.started = TRUE]
    [] n.pc = "set" -> [n EXCEPT !.pc = "idle", !.health = SERVING, !.result = "returned"]

\* One statement of Start(): the call builds a new server (lines 83-87);
\* add_insecure_port returns the port, or 0 when it cannot be bound, and then
\* RuntimeError is raised (88-89); server.start() (90); the health status of
\* '' is set to SERVING and the server returned (91-93).
StartStep(n, portFree) ==
  CASE n.pc = "idle" ->
         [n EXCEPT !.pc = "bind", !.binds = 0, !.bound = FALSE, !.started = FALSE,
                   !.result = "pending", !.starts = @ + 1]
    [] n.pc = "bind" ->
         IF portFree
         THEN [n EXCEPT !.pc = "start", !.binds = @ + 1, !.bound = TRUE]
         ELSE [n EXCEPT !.pc = "idle", !.binds = @ + 1, !.result = "RuntimeError",
                        !.failures = @ + 1]
    [] n.pc = "start" -> [n EXCEPT !.pc = "set", !.started = TRUE]
    [] n.pc = "set" -> [n EXCEPT !.pc = "idle", !.health = SERVING, !.result = "returned"]

\* ----------------------------------------------------------------- state
Threads == {"srv", "cls"}
Timeouts == {0, 1}

VARIABLES
  impls,      \* AnalyticService._impls
  lastReg,    \* the last _RegisterImpl call: its arguments and outcome
  net,        \* the network server: where Start() is and what it has done
  receiver,   \* AnalyticServiceFIFO.receiver: None, "open" or "closed"
  sender,     \* AnalyticServiceFIFO.sender
  lock,       \* AnalyticServiceFIFO.lock: "free" or the thread holding it
  pc,         \* where each thread is
  op,         \* the public method the serving thread is in
  io,         \* the send/receive call the serving thread is in
  timeout,    \* the timeout argument of that call
  data,       \* the line that call is sending
  line,       \* the line receive() returned
  waited,     \* ticks since a call with a timeout began
  selWaited,  \* ticks since its select() began
  inPipe,     \* lines in the inbound FIFO
  rbuf,       \* lines read ahead into the receiver's buffer
  outPipe,    \* number of lines in the outbound FIFO
  peerIn,     \* the peer's write end of the inbound FIFO
  peerOut,    \* the peer's read end of the outbound FIFO
  call,       \* the last _CallEndpoint call and what it did
  step,       \* what the current (or last) serveOnce step did
  result,     \* how each thread's last call ended
  count       \* number of steps, peer lines and closes so far

vars == <<impls, lastReg, net, receiver, sender, lock, pc, op, io, timeout, data, line,
          waited, selWaited, inPipe, rbuf, outPipe, peerIn, peerOut, call, step,
          result, count>>

regVars == <<impls, lastReg>>
pipeVars == <<inPipe, rbuf, outPipe, peerIn, peerOut>>
ioVars == <<io, timeout, data, waited, selWaited>>

NoCall == [type |-> None, invoked |-> <<>>, aborts |-> <<>>, raised |-> FALSE,
           resp |-> ZeroMessage, fail |-> "none", msg |-> "", fill |-> ZeroMessage,
           registered |-> FALSE]
\* afterClose: whether a handle was closed already when the call began.
NoStep == [parsed |-> FALSE, dispatched |-> FALSE, wrote |-> <<>>, ended |-> "no",
           afterClose |-> FALSE]
NoData == [code |-> "", value |-> <<>>]
\* The line a direct send() call is given.
SendData == {[code |-> "raw", value |-> <<>>]}
\* A call that has not ended yet.
Pending == [cls |-> "pending", op |-> "", timeout |-> 0]
Ok == [cls |-> "none", op |-> "", timeout |-> 0]
Raised(cls) == [cls |-> cls, op |-> "", timeout |-> 0]
\* FIFOTimeoutError(op, timeout)
FIFOTimeoutError(o, t) == [cls |-> "FIFOTimeoutError", op |-> o, timeout |-> t]

Init ==
  /\ impls = [t \in {} |-> None]
  /\ lastReg = [type |-> None, f |-> None, raised |-> "none"]
  /\ net = NoServer
  /\ receiver = None
  /\ sender = None
  /\ lock = "free"
  /\ pc = [t \in Threads |-> "idle"]
  /\ op = "none"
  /\ io = "none"
  /\ timeout = 0
  /\ data = NoData
  /\ line = NoLine
  /\ waited = 0
  /\ selWaited = 0
  /\ inPipe = <<>>
  /\ rbuf = <<>>
  /\ outPipe = 0
  /\ peerIn = "unopened"
  /\ peerOut = "unopened"
  /\ call = NoCall
  /\ step = NoStep
  /\ result = [t \in Threads |-> [cls |-> "none", op |-> "", timeout |-> 0]]
  /\ count = [steps |-> 0, lines |-> 0, closes |-> 0]

InServe == op \in {"serveOnce", "run"}

\* The same with a lock taken by acquire() and released only at the normal
\* end of the step.
UnwindKeepsLock(r, s) ==
  /\ lock' = lock
  /\ result' = [result EXCEPT !["srv"] = r]
  /\ pc' = [pc EXCEPT !["srv"] = IF op = "run" THEN "cLock" ELSE "idle"]
  /\ op' = IF op = "run" THEN "run" ELSE "none"
  /\ io' = "none"
  /\ timeout' = 0
  /\ data' = NoData
  /\ waited' = 0
  /\ selWaited' = 0
  /\ step' = s

\* An exception leaves the serving thread's current call: "with self.lock"
\* releases the lock, and Run's contextlib.closing goes on to close().
Unwind(r, s) ==
  /\ lock' = IF lock = "srv" THEN "free" ELSE lock
  /\ result' = [result EXCEPT !["srv"] = r]
  /\ pc' = [pc EXCEPT !["srv"] = IF op = "run" THEN "cLock" ELSE "idle"]
  /\ op' = IF op = "run" THEN "run" ELSE "none"
  /\ io' = "none"
  /\ timeout' = 0
  /\ data' = NoData
  /\ waited' = 0
  /\ selWaited' = 0
  /\ step' = s

\* ------------------------------------------------------------- registry
\* RegisterImageManipulation and the like, called between other calls.
Register(t, f) ==
  /\ pc["srv"] = "idle"
  /\ LET r == RegisterImpl(impls, t, f)
     IN  /\ impls' = r.impls
         /\ lastReg' = [type |-> t, f |-> f, raised |-> r.raised]
  /\ UNCHANGED <<net, receiver, sender, lock, pc, op, io, timeout, data, line, waited,
                 selWaited, inPipe, rbuf, outPipe, peerIn, peerOut, call, step,
                 result, count>>


\* What is kept of a _CallEndpoint call: its result c, how the handler
\* behaved if one was called, and whether the registry had an entry.
CallRecord(ep_type, c, b) ==
  LET called == c.invoked # <<>>
  IN  [type |-> ep_type, invoked |-> c.invoked, aborts |-> c.aborts,
       raised |-> c.raised, resp |-> c.resp,
       fail |-> IF called THEN b.fail ELSE "none",
       msg |-> IF called THEN b.msg ELSE "",
       fill |-> IF called THEN b.fill ELSE ZeroMessage,
       registered |-> ep_type \in DOMAIN impls]

\* _AnalyticServicer.DetectImageManipulation and the like: the network
\* transport calls _CallEndpoint with a fresh response and the grpc context.
Detect(ep_type, b) ==
  /\ call' = CallRecord(ep_type, CallEndpoint(impls, ep_type, ZeroMessage, b), b)
  /\ UNCHANGED <<regVars, net, receiver, sender, lock, pc, op, ioVars, line, pipeVars, step,
                 result, count>>

\* Start(analytic_port): its next statement; the port is free or in use.
Start(portFree) ==
  /\ net.pc = "idle" => net.starts < MaxStarts
  /\ net' = StartStep(net, portFree)
  /\ UNCHANGED <<impls, lastReg, receiver, sender, lock, pc, op, ioVars, line, pipeVars,
                 call, step, result, count>>

\* ------------------------------------------------------ serving thread
\* What is known of a call of the serving thread, or of a step of Run, when
\* it begins.
NewStep == [NoStep EXCEPT !.afterClose = (receiver = "closed" \/ sender = "closed")]

Bump(c, k) == [c EXCEPT ![k] = @ + 1]

\* A public method is called on thread t: what is remembered of the serving
\* thread's previous call is forgotten.
Begin(t) ==
  /\ result' = [result EXCEPT ![t] = Pending]
  /\ IF t = "srv"
     THEN line' = NoLine /\ call' = NoCall /\ step' = NewStep
     ELSE UNCHANGED <<line, call, step>>

\* serveOnce() called directly.
CallServeOnce ==
  /\ pc["srv"] = "idle"
  /\ count.steps < MaxSteps
  /\ op' = "serveOnce"
  /\ pc' = [pc EXCEPT !["srv"] = "lock"]
  /\ Begin("srv")
  /\ UNCHANGED <<regVars, net, receiver, sender, lock, ioVars, pipeVars, count>>

\* Run(): the loop around serveOnce(), inside contextlib.closing(self).
CallRun ==
  /\ pc["srv"] = "idle"
  /\ count.steps < MaxSteps
  /\ count.closes < MaxCloses
  /\ op' = "run"
  /\ pc' = [pc EXCEPT !["srv"] = "lock"]
  /\ count' = Bump(count, "closes")
  /\ Begin("srv")
  /\ UNCHANGED <<regVars, net, receiver, sender, lock, ioVars, pipeVars>>

\* serveOnce with a timeout of one tick given to its receive() and send().
ServeTimeoutSet(o) == 1

\* The timeout serveOnce calls o ("receive" or "send") with: it gives none,
\* so the default of the parameter, 0, which waits without limit.
ServeTimeout(o) == 0

\* "with self.lock:" of serveOnce, then the call of self.receive().
AcquireLock ==
  /\ pc["srv"] = "lock"
  /\ InServe
  /\ lock = "free"
  /\ count.steps < MaxSteps
  /\ lock' = "srv"
  /\ pc' = [pc EXCEPT !["srv"] = "openIn"]
  /\ io' = "receive"
  /\ timeout' = ServeTimeout("receive")
  /\ step' = NewStep
  /\ call' = NoCall
  /\ line' = NoLine
  /\ count' = Bump(count, "steps")
  /\ UNCHANGED <<regVars, net, receiver, sender, op, data, waited, selWaited, pipeVars, result>>

\* send(data, timeout) called directly; it takes no lock.
CallSend(d, t) ==
  /\ pc["srv"] = "idle"
  /\ op' = "send"
  /\ io' = "send"
  /\ timeout' = t
  /\ data' = d
  /\ waited' = 0
  /\ selWaited' = 0
  /\ pc' = [pc EXCEPT !["srv"] = "openIn"]
  /\ Begin("srv")
  /\ UNCHANGED <<regVars, net, receiver, sender, lock, pipeVars, count>>

\* receive(timeout) called directly; it takes no lock.
CallReceive(t) ==
  /\ pc["srv"] = "idle"
  /\ op' = "receive"
  /\ io' = "receive"
  /\ timeout' = t
  /\ waited' = 0
  /\ selWaited' = 0
  /\ pc' = [pc EXCEPT !["srv"] = "openIn"]
  /\ Begin("srv")
  /\ UNCHANGED <<regVars, net, receiver, sender, lock, data, pipeVars, count>>

\* _ensureOpen, first half: os.open(infile, O_RDONLY) returns once the peer
\* has opened the FIFO for writing.
OpenReceiver ==
  /\ pc["srv"] = "openIn"
  /\ IF Truthy(receiver)
     THEN receiver' = receiver
     ELSE /\ peerIn = "open"
          /\ receiver' = "open"
  /\ pc' = [pc EXCEPT !["srv"] = "openOut"]
  /\ UNCHANGED <<regVars, net, sender, lock, op, ioVars, line, pipeVars, call, step, result, count>>

\* _ensureOpen, second half: os.open(outfile, O_WRONLY) returns once the
\* peer has opened the FIFO for reading.  Then f is taken and select() is
\* entered; select() on a closed file object raises ValueError.
OpenSender ==
  /\ pc["srv"] = "openOut"
  /\ IF Truthy(sender)
     THEN sender' = sender
     ELSE /\ peerOut = "open"
          /\ sender' = "open"
  /\ LET f == IF io = "send" THEN sender' ELSE receiver
     IN  IF f = "closed"
         THEN Unwind(Raised("ValueError"),
                     IF InServe THEN [step EXCEPT !.ended = "raised"] ELSE step)
         ELSE /\ pc' = [pc EXCEPT !["srv"] = "select"]
              /\ selWaited' = 0
              /\ UNCHANGED <<lock, op, io, timeout, data, waited, step, result>>
  /\ UNCHANGED <<regVars, net, receiver, line, pipeVars, call, count>>

\* os.open raises OSError: the path is missing, is no FIFO the process may
\* open, or the call was interrupted.  The handle opened before it stays.
OpenFails ==
  /\ \/ pc["srv"] = "openIn" /\ ~Truthy(receiver)
     \/ pc["srv"] = "openOut" /\ ~Truthy(sender)
  /\ Unwind(Raised("OSError"),
            IF InServe THEN [step EXCEPT !.ended = "raised"] ELSE step)
  /\ UNCHANGED <<regVars, net, receiver, sender, line, pipeVars, call, count>>

\* A select() that also counted the lines read ahead into the buffer.
ReadyWithBuffer ==
  IF io = "receive"
  THEN Len(inPipe) > 0 \/ peerIn = "closed" \/ rbuf # <<>>
  ELSE outPipe < OutCap

\* What select() waits for: data or end-of-stream in the inbound FIFO (lines
\* already read ahead into the file object's buffer do not count), room in
\* the outbound FIFO.
Ready ==
  IF io = "receive"
  THEN Len(inPipe) > 0 \/ peerIn = "closed"
  ELSE outPipe < OutCap

Blocked ==
  \/ pc["srv"] = "openIn" /\ ~Truthy(receiver) /\ peerIn # "open"
  \/ pc["srv"] = "openOut" /\ ~Truthy(sender) /\ peerOut # "open"
  \/ pc["srv"] = "select" /\ ~Ready

\* Time passes while a call that was given a timeout is blocked; select()
\* does not wait longer than its timeout.
Tick ==
  /\ timeout > 0
  /\ Blocked
  /\ waited < MaxWait
  /\ pc["srv"] = "select" => selWaited < timeout
  /\ waited' = waited + 1
  /\ selWaited' = IF pc["srv"] = "select" THEN selWaited + 1 ELSE selWaited
  /\ UNCHANGED <<regVars, net, receiver, sender, lock, pc, op, io, timeout, data, line,
                 pipeVars, call, step, result, count>>

\* select() returns three empty lists: FIFOTimeoutError.
SelectTimeout ==
  /\ pc["srv"] = "select"
  /\ timeout > 0
  /\ selWaited >= timeout
  /\ ~Ready
  /\ Unwind(FIFOTimeoutError(IF io = "send" THEN "write" ELSE "read", timeout), step)
  /\ UNCHANGED <<regVars, net, receiver, sender, line, pipeVars, call, count>>

\* The file object was closed by another thread while select() waited: the
\* readline() or write() that follows raises ValueError.
SelectClosed ==
  /\ pc["srv"] = "select"
  /\ (IF io = "send" THEN sender ELSE receiver) = "closed"
  /\ Unwind(Raised("ValueError"), step)
  /\ UNCHANGED <<regVars, net, receiver, sender, line, pipeVars, call, count>>

\* f.readline(): a line read ahead earlier is returned first; otherwise all
\* that is in the FIFO is read, its first line returned and the rest kept;
\* at end-of-stream the empty string is returned.
ReceiveLine ==
  /\ pc["srv"] = "select"
  /\ io = "receive"
  /\ receiver = "open"
  /\ Ready
  /\ LET l == IF rbuf # <<>> THEN Head(rbuf)
              ELSE IF inPipe # <<>> THEN Head(inPipe) ELSE EofLine
     IN  /\ line' = l
         /\ IF rbuf # <<>>
            THEN rbuf' = Tail(rbuf) /\ inPipe' = inPipe
            ELSE IF inPipe # <<>>
            THEN rbuf' = Tail(inPipe) /\ inPipe' = <<>>
            ELSE UNCHANGED <<rbuf, inPipe>>
         /\ IF InServe
            THEN /\ pc' = [pc EXCEPT !["srv"] = "dispatch"]
                 /\ UNCHANGED <<op, result, step>>
            ELSE /\ pc' = [pc EXCEPT !["srv"] = "idle"]
                 /\ op' = "none"
                 /\ result' = [result EXCEPT !["srv"] = Ok]
                 /\ UNCHANGED step
  /\ io' = "none"
  /\ timeout' = 0
  /\ waited' = 0
  /\ selWaited' = 0
  /\ UNCHANGED <<regVars, net, receiver, sender, lock, data, outPipe, peerIn, peerOut, call,
                 count>>

\* Lines 249-266 of serveOnce between receive() and send(): parse the line,
\* call the endpoint (the handler behaves as b) and build the response line.
Dispatch(b) ==
  /\ pc["srv"] = "dispatch"
  /\ LET p == ParseRequest(line)
         s == [step EXCEPT !.parsed = (p.error # "JSONDecodeError")]
     IN  IF p.error # "none"
         THEN /\ Unwind(Raised(p.error), [s EXCEPT !.ended = "raised"])
              /\ UNCHANGED call
         ELSE LET c == CallEndpoint(impls, p.callType, ZeroMessage, b)
              IN  /\ call' = CallRecord(p.callType, c, b)
                  /\ step' = [s EXCEPT !.dispatched = TRUE]
                  /\ data' = IF c.raised THEN AbortLine(c.aborts[Len(c.aborts)])
                             ELSE OkLine(c.resp)
                  /\ io' = "send"
                  /\ timeout' = ServeTimeout("send")
                  /\ pc' = [pc EXCEPT !["srv"] = "openIn"]
                  /\ UNCHANGED <<lock, op, waited, selWaited, result>>
  /\ UNCHANGED <<regVars, net, receiver, sender, line, pipeVars, count>>

\* f.write(data + '\n'); f.flush().  In serveOnce this ends the step and
\* releases the lock; Run goes round its loop.
SendWrite ==
  /\ pc["srv"] = "select"
  /\ io = "send"
  /\ sender = "open"
  /\ Ready
  /\ outPipe' = outPipe + 1
  /\ IF InServe
     THEN /\ step' = [step EXCEPT !.wrote = Append(@, data), !.ended = "ok"]
          /\ lock' = "free"
          /\ pc' = [pc EXCEPT !["srv"] = IF op = "run" THEN "lock" ELSE "idle"]
          /\ op' = IF op = "run" THEN "run" ELSE "none"
     ELSE /\ pc' = [pc EXCEPT !["srv"] = "idle"]
          /\ op' = "none"
          /\ UNCHANGED <<step, lock>>
  /\ result' = [result EXCEPT !["srv"] = Ok]
  /\ io' = "none"
  /\ timeout' = 0
  /\ data' = NoData
  /\ waited' = 0
  /\ selWaited' = 0
  /\ UNCHANGED <<regVars, net, receiver, sender, line, inPipe, rbuf, peerIn, peerOut, call,
                 count>>

\* The external stop of Run (KeyboardInterrupt), wherever the loop is.
Interrupt ==
  /\ op = "run"
  /\ pc["srv"] \in {"lock", "openIn", "openOut", "select", "dispatch"}
  /\ Unwind(Raised("KeyboardInterrupt"),
            IF lock = "srv" THEN [step EXCEPT !.ended = "interrupted"] ELSE step)
  /\ UNCHANGED <<regVars, net, receiver, sender, line, pipeVars, call, count>>


\* ----------------------------------------------------------------- close
\* close() called directly, by the serving thread or by another thread.
CallClose(t) ==
  /\ pc[t] = "idle"
  /\ count.closes < MaxCloses
  /\ pc' = [pc EXCEPT ![t] = "cLock"]
  /\ op' = IF t = "srv" THEN "close" ELSE op
  /\ count' = Bump(count, "closes")
  /\ Begin(t)
  /\ UNCHANGED <<regVars, net, receiver, sender, lock, ioVars, pipeVars>>

\* close() without its "with self.lock:".
CloseAcquireNoLock(t) ==
  /\ pc[t] = "cLock"
  /\ lock' = t
  /\ pc' = [pc EXCEPT ![t] = "cRecv"]
  /\ UNCHANGED <<regVars, net, receiver, sender, op, ioVars, line, pipeVars, call, step,
                 result, count>>

\* "with self.lock:" of close().
CloseAcquire(t) ==
  /\ pc[t] = "cLock"
  /\ lock = "free"
  /\ lock' = t
  /\ pc' = [pc EXCEPT ![t] = "cRecv"]
  /\ UNCHANGED <<regVars, net, receiver, sender, op, ioVars, line, pipeVars, call, step, result,
                 count>>

\* "if self.receiver: self.receiver.close()"
CloseReceiver(t) ==
  /\ pc[t] = "cRecv"
  /\ IF Truthy(receiver) /\ FileCloseRaises(receiver)
     THEN /\ lock' = "free"
          /\ pc' = [pc EXCEPT ![t] = "idle"]
          /\ result' = [result EXCEPT ![t] = Raised("OSError")]
          /\ op' = IF t = "srv" THEN "none" ELSE op
          /\ UNCHANGED receiver
     ELSE /\ receiver' = IF Truthy(receiver) THEN FileClose(receiver) ELSE receiver
          /\ pc' = [pc EXCEPT ![t] = "cSend"]
          /\ UNCHANGED <<lock, result, op>>
  /\ UNCHANGED <<regVars, net, sender, ioVars, line, pipeVars, call, step, count>>

\* "if self.sender: self.sender.close()", then the lock is released.  After
\* Run the exception that ended the loop is still the outcome.
CloseSender(t) ==
  /\ pc[t] = "cSend"
  /\ IF Truthy(sender) /\ FileCloseRaises(sender)
     THEN /\ result' = [result EXCEPT ![t] = Raised("OSError")]
          /\ UNCHANGED sender
     ELSE /\ sender' = IF Truthy(sender) THEN FileClose(sender) ELSE sender
          /\ result' = IF t = "srv" /\ op = "run" THEN result
                       ELSE [result EXCEPT ![t] = Ok]
  /\ lock' = "free"
  /\ pc' = [pc EXCEPT ![t] = "idle"]
  /\ op' = IF t = "srv" THEN "none" ELSE op
  /\ UNCHANGED <<regVars, net, receiver, ioVars, line, pipeVars, call, step, count>>

\* ------------------------------------------------------------------ peer
\* The peer opens the inbound FIFO for writing.
PeerOpenIn ==
  /\ peerIn = "unopened"
  /\ peerIn' = "open"
  /\ UNCHANGED <<regVars, net, receiver, sender, lock, pc, op, ioVars, line, inPipe, rbuf,
                 outPipe, peerOut, call, step, result, count>>

\* The peer opens the outbound FIFO for reading.
PeerOpenOut ==
  /\ peerOut = "unopened"
  /\ peerOut' = "open"
  /\ UNCHANGED <<regVars, net, receiver, sender, lock, pc, op, ioVars, line, inPipe, rbuf,
                 outPipe, peerIn, call, step, result, count>>

\* The peer writes a request line; its open() has returned, so the read end
\* is open.
PeerWrite(l) ==
  /\ peerIn = "open"
  /\ receiver = "open"
  /\ count.lines < MaxLines
  /\ inPipe' = Append(inPipe, l)
  /\ count' = Bump(count, "lines")
  /\ UNCHANGED <<regVars, net, receiver, sender, lock, pc, op, ioVars, line, rbuf, outPipe,
                 peerIn, peerOut, call, step, result>>

\* The peer closes its write end: end-of-stream for the receiver.
PeerCloseIn ==
  /\ peerIn = "open"
  /\ receiver # None
  /\ peerIn' = "closed"
  /\ UNCHANGED <<regVars, net, receiver, sender, lock, pc, op, ioVars, line, inPipe, rbuf,
                 outPipe, peerOut, call, step, result, count>>

\* The peer reads a response line.
PeerRead ==
  /\ peerOut = "open"
  /\ outPipe > 0
  /\ outPipe' = outPipe - 1
  /\ UNCHANGED <<regVars, net, receiver, sender, lock, pc, op, ioVars, line, inPipe, rbuf,
                 peerIn, peerOut, call, step, result, count>>

\* --------------------------------------------------------- specifications
Peer == PeerOpenIn \/ PeerOpenOut \/ (\E l \in PeerLines : PeerWrite(l)) \/ PeerCloseIn
          \/ PeerRead

Close == \E t \in Threads : CallClose(t) \/ CloseAcquire(t) \/ CloseReceiver(t)
                              \/ CloseSender(t)

\* Registration by the program that serves over the pipes.
Registration == \E t \in PipeRegisterTypes, f \in PipeHandlers : Register(t, f)

Serve == CallServeOnce \/ CallRun \/ AcquireLock \/ OpenReceiver \/ OpenSender
           \/ ReceiveLine \/ (\E b \in Behaviours : Dispatch(b)) \/ SendWrite

\* The transport used as a server: registration, Run or serveOnce on the
\* serving thread, close() from either thread, and the peer.
NextServe == Registration \/ Serve \/ Close \/ Peer

SpecServe == Init /\ [][NextServe]_vars

\* The server with the external stop of Run as well.
Next == NextServe \/ Interrupt

Spec == Init /\ [][Next]_vars

\* send() and receive() called directly, with and without a timeout, and
\* close() from either thread.
NextDirect ==
  \/ \E d \in SendData, t \in Timeouts : CallSend(d, t)
  \/ \E t \in Timeouts : CallReceive(t)
  \/ OpenReceiver \/ OpenSender \/ ReceiveLine \/ SendWrite
  \/ Tick \/ SelectTimeout \/ SelectClosed
  \/ Close \/ Peer

SpecDirect == Init /\ [][NextDirect]_vars

\* The registry and the dispatch core behind the network transport: any
\* sequence of registrations and of calls of the four servicer methods.
NextDispatch ==
  \/ \E t \in RegisterTypes, f \in Handlers : Register(t, f)
  \/ \E t \in ALLOWED_IMPLS, b \in Behaviours : Detect(t, b)

SpecDispatch == Init /\ [][NextDispatch]_vars

\* The network transport: registrations and Start() calls, on a port that
\* is free or in use.
NextNetwork ==
  \/ \E t \in RegisterTypes, f \in Handlers : Register(t, f)
  \/ \E portFree \in BOOLEAN : Start(portFree)

SpecNetwork == Init /\ [][NextNetwork]_vars

\* Every use of the transport together: Run, serveOnce, send() and receive()
\* called directly with and without a timeout, and close() from either
\* thread, with no handler registered.
NextMixed ==
  \/ CallRun \/ CallServeOnce \/ AcquireLock \/ (\E b \in Behaviours : Dispatch(b))
  \/ \E d \in SendData, t \in Timeouts : CallSend(d, t)
  \/ \E t \in Timeouts : CallReceive(t)
  \/ OpenReceiver \/ OpenSender \/ ReceiveLine \/ SendWrite
  \/ Tick \/ SelectTimeout \/ SelectClosed
  \/ Close \/ Peer

SpecMixed == Init /\ [][NextMixed]_vars

\* serveOnce, send() and receive() called without a timeout, and close() from
\* either thread.
NextUntimed ==
  \/ CallServeOnce \/ AcquireLock \/ (\E b \in Behaviours : Dispatch(b))
  \/ (\E d \in SendData : CallSend(d, 0)) \/ CallReceive(0)
  \/ OpenReceiver \/ OpenSender \/ ReceiveLine \/ SendWrite \/ SelectClosed
  \/ Close \/ Peer

SpecUntimed == Init /\ [][NextUntimed]_vars

\* Every use of the transport, with FIFO paths that may fail to open.
NextFaulty == NextMixed \/ OpenFails

SpecFaulty == Init /\ [][NextFaulty]_vars

TypeOK ==
  /\ receiver \in {None, "open", "closed"}
  /\ sender \in {None, "open", "closed"}
  /\ lock \in {"free"} \cup Threads
  /\ outPipe \in 0..OutCap
  /\ waited \in 0..MaxWait
  /\ DOMAIN impls \subseteq ALLOWED_IMPLS


\* ----------------------------------------------------------------- claims
\* A request line serveOnce accepts: a JSON object whose type is a known
\* short code and whose value fits the request message.
WellFormed(l) == l.kind = "object" /\ l.type \in DOMAIN TYPES /\ l.value = "ok"

\* A serveOnce step that is over, by its return or by an exception of its own.
StepOver == step.ended \in {"ok", "raised"}

\* The last ctx.abort of the call.
LastAbort == call.aborts[Len(call.aborts)]

\* C1, as claimed: every request line a serveOnce step has read is answered
\* by exactly one response line by the time the step is over.
C1_EveryLineAnswered ==
  (StepOver /\ line \in PeerLines) => Len(step.wrote) = 1

\* C1, amended: a step writes at most one line, only after it has read its
\* request line, and only as its last act; once the step is over it has written
\* exactly one line if the line it read was well formed and none otherwise.
C1_OneResponsePerWellFormedLine ==
  /\ Len(step.wrote) <= 1
  /\ step.wrote # <<>> => (line \in PeerLines /\ WellFormed(line) /\ step.ended = "ok")
  /\ (StepOver /\ line \in PeerLines \cup {EofLine})
       => (Len(step.wrote) = 1 <=> WellFormed(line))

\* C1, witness: a Run loop has answered a well-formed line in its second step.
C1_Witness ==
  /\ op = "run"
  /\ count.steps = 2
  /\ step.ended = "ok"
  /\ Len(step.wrote) = 1
  /\ WellFormed(line)

\* C2, as claimed: a send or receive call that was given a timeout t > 0 is
\* never still waiting after more than t ticks, and a FIFOTimeoutError names
\* the operation and that timeout.
C2_BoundedWaiting ==
  /\ (op \in {"send", "receive"} /\ timeout > 0) => waited <= timeout
  /\ result["srv"].cls = "FIFOTimeoutError"
       => (result["srv"].op \in {"read", "write"} /\ result["srv"].timeout > 0)

\* C3: when the dispatch of a serveOnce step aborted, the step, once over, has
\* returned normally having written exactly the one line {code: str(code of
\* the abort), value: details of the abort}, and a Run loop is back at the
\* top of its loop.
C3_AbortPath ==
  (step.dispatched /\ call.raised /\ step.ended # "no")
    => /\ step.ended = "ok"
       /\ result["srv"] = Ok
       /\ Len(step.wrote) = 1
       /\ step.wrote[1].code = StrCode(LastAbort.code)
       /\ step.wrote[1].value = LastAbort.details
       /\ op = "run" => pc["srv"] = "lock"

\* C3, witness: a Run loop is back at its top after a step whose handler
\* raised ValueError and whose abort line was written.
C3_Witness ==
  /\ op = "run"
  /\ pc["srv"] = "lock"
  /\ step.ended = "ok"
  /\ call.fail = "ValueError"
  /\ call.raised
  /\ Len(step.wrote) = 1

\* C4: when the handler of a serveOnce step returned, the step, once over, has
\* written exactly one line, with code "OK" and a value that holds every field
\* the handler set and decodes to the response the handler left.
C4_SuccessPath ==
  (step.dispatched /\ call.invoked # <<>> /\ call.fail = "none" /\ step.ended # "no")
    => /\ step.ended = "ok"
       /\ Len(step.wrote) = 1
       /\ step.wrote[1].code = "OK"
       /\ \A f \in Fields : call.fill[f] # 0 => f \in DOMAIN step.wrote[1].value
       /\ ParseDict(step.wrote[1].value, ZeroMessage) = call.fill

\* C4, witness: a step is over whose handler set score and returned.
C4_Witness ==
  /\ step.ended = "ok"
  /\ call.invoked # <<>>
  /\ call.fail = "none"
  /\ call.fill["score"] = 1
  /\ Len(step.wrote) = 1

\* C5, as claimed: every step that decoded its line as JSON has written a
\* line by the time it is over.
C5_ParsedIsAnswered ==
  (step.parsed /\ StepOver) => Len(step.wrote) = 1

\* C5, amended: every step that decoded its line as JSON and reached the
\* dispatch (the message has a type naming a known short code and a value
\* that fits the request) has written one {code, value} line by the time it
\* is over, and has not failed.
C5_DispatchedIsAnswered ==
  (step.parsed /\ step.dispatched /\ step.ended # "no")
    => /\ Len(step.wrote) = 1
       /\ step.wrote[1].code \in {"OK", "StatusCode.UNIMPLEMENTED",
                                   "StatusCode.INVALID_ARGUMENT", "StatusCode.UNKNOWN"}
       /\ step.ended = "ok"

\* C5, witness: a step is over that answered a request for an endpoint
\* without a handler.
C5_Witness ==
  /\ step.parsed
  /\ step.dispatched
  /\ step.ended = "ok"
  /\ ~call.registered
  /\ Len(step.wrote) = 1


\* C6: when the handler a call invoked failed, the call made exactly one
\* ctx.abort and left by it, with the code of the failure's class:
\* INVALID_ARGUMENT for ValueError, with details that contain the handler's
\* message, UNIMPLEMENTED for NotImplementedError, UNKNOWN for any other.
C6_HandlerFailureAborts ==
  (call.invoked # <<>> /\ call.fail # "none")
    => /\ Len(call.aborts) = 1
       /\ call.raised
       /\ call.fail = "ValueError"
            => /\ call.aborts[1].code = INVALID_ARGUMENT
               /\ SeqContains(call.aborts[1].details, call.msg)
       /\ call.fail = "NotImplementedError" => call.aborts[1].code = UNIMPLEMENTED
       /\ call.fail \notin {"ValueError", "NotImplementedError"}
            => call.aborts[1].code = UNKNOWN

\* C6, witness: a call whose handler raised ValueError("bad crop") has aborted.
C6_Witness ==
  /\ call.invoked # <<>>
  /\ call.fail = "ValueError"
  /\ call.msg = "bad crop"
  /\ call.aborts # <<>>

\* C7: a call for an endpoint type without a registry entry invoked no
\* handler, made exactly one ctx.abort, with UNIMPLEMENTED, and left by it.
C7_UnregisteredUnimplemented ==
  (call.type # None /\ ~call.registered)
    => /\ call.invoked = <<>>
       /\ Len(call.aborts) = 1
       /\ call.aborts[1].code = UNIMPLEMENTED
       /\ call.raised

\* C7, witness: such a call was made while other endpoint types had handlers.
C7_Witness ==
  /\ call.type # None
  /\ ~call.registered
  /\ call.aborts # <<>>
  /\ Cardinality(DOMAIN impls) >= 2

\* C8: every key of the registry is one of the four endpoint types; no step
\* replaces or removes an entry; and a _RegisterImpl call for a type that has
\* an entry fails with AlreadyRegistered and leaves the registry as it was.
C8_RegistryKeepsFirst ==
  [][ /\ DOMAIN impls' \subseteq ALLOWED_IMPLS
      /\ \A t \in DOMAIN impls : t \in DOMAIN impls' /\ impls'[t] = impls[t]
      /\ \A t \in RegisterTypes, f \in Handlers :
           (Register(t, f) /\ t \in DOMAIN impls)
             => (lastReg'.raised = "AlreadyRegistered" /\ impls' = impls) ]_vars

\* C8, witness: registering another handler for a registered type has failed
\* and the first handler is still the one mapped.
C8_Witness ==
  /\ lastReg.raised = "AlreadyRegistered"
  /\ lastReg.type \in DOMAIN impls
  /\ impls[lastReg.type] # lastReg.f

\* C9: a _RegisterImpl call with a type outside the four endpoint types fails
\* with UnknownType and leaves the registry as it was.
C9_UnknownTypeRejected ==
  [][ \A t \in RegisterTypes \ ALLOWED_IMPLS, f \in Handlers :
        Register(t, f) => (lastReg'.raised = "UnknownType" /\ impls' = impls) ]_vars

\* C9, witness: such a call has failed on a registry that holds entries.
C9_Witness ==
  /\ lastReg.raised = "UnknownType"
  /\ lastReg.type \notin ALLOWED_IMPLS
  /\ DOMAIN impls # {}

\* C10: a close() that finds a handle not open (never opened, or closed by an
\* earlier close()) leaves that handle as it is and goes on without failing,
\* and no close() leaves a handle open.
C10_CloseIdempotent ==
  [][ \A t \in Threads :
        /\ CloseReceiver(t)
             => /\ receiver' # "open"
                /\ receiver # "open" => (receiver' = receiver /\ pc'[t] = "cSend")
        /\ CloseSender(t)
             => /\ sender' # "open"
                /\ sender # "open" => (sender' = sender /\ result'[t].cls # "OSError") ]_vars

\* C10, witness: a second close() is at work on a transport whose two handles
\* an earlier close() closed.
C10_Witness ==
  \E t \in Threads :
    /\ pc[t] = "cSend"
    /\ count.closes >= 2
    /\ receiver = "closed"
    /\ sender = "closed"

\* C11: the health status of '' changes only by the last statement of a
\* Start() whose server has its port bound and has been started, and becomes
\* SERVING; until then it is unset.  An add_insecure_port that fails ends the
\* Start() at once with RuntimeError: it was the only bind attempt of the
\* call, the server is not started and the status is left as it was.
C11_ServingAfterBindAndStart ==
  [][ /\ net'.health # net.health
           => (net.pc = "set" /\ net.bound /\ net.started /\ net'.health = SERVING)
      /\ (net.pc = "bind" /\ net' # net /\ ~net'.bound)
           => /\ net'.pc = "idle"
              /\ net'.result = "RuntimeError"
              /\ net'.binds = 1
              /\ ~net'.started
              /\ net'.health = net.health ]_vars

\* C11, witness: after a Start() that failed to bind, another Start() has
\* bound its port, started its server and set SERVING.
C11_Witness ==
  /\ net.failures = 1
  /\ net.result = "returned"
  /\ net.bound
  /\ net.started
  /\ net.health = SERVING

\* A serveOnce step is in progress: the serving thread is between the
\* "with self.lock:" of serveOnce and the end of the step.
InStep == InServe /\ pc["srv"] \in {"openIn", "openOut", "select", "dispatch"}

\* C12: while a serveOnce step (open, receive, dispatch, send) is in progress
\* on the serving thread, a close() on the other thread is not at either of
\* its two handle-closing statements, and no step changes a handle to closed.
C12_NoCloseDuringStep ==
  /\ [](InStep => pc["cls"] \notin {"cRecv", "cSend"})
  /\ [][ InStep => /\ receiver' = "closed" => receiver = "closed"
                   /\ sender' = "closed" => sender = "closed" ]_vars

\* C12, witness: a close() on the other thread waits for the lock while a
\* step of Run, with both handles open, waits for its request line.
C12_Witness ==
  /\ InStep
  /\ op = "run"
  /\ pc["srv"] = "select"
  /\ pc["cls"] = "cLock"
  /\ receiver = "open"
  /\ sender = "open"

\* A line serveOnce has read that it does not accept: not JSON (the empty
\* line of end-of-stream included), no "type", an unknown short code, or a
\* value that does not fit the request message.
Malformed(l) == l \in PeerLines \cup {EofLine} /\ ~WellFormed(l)

\* C13: a step that read a malformed line invokes no handler and writes no
\* line; once it is over it has failed, with the exception of the parse, and
\* a Run loop takes no further step: it goes on to its close() and ends with
\* that exception.
C13_MalformedNeverDispatched ==
  /\ [](Malformed(line)
          => /\ ~step.dispatched
             /\ call.invoked = <<>>
             /\ step.wrote = <<>>
             /\ step.ended # "no"
                  => /\ step.ended = "raised"
                     /\ result["srv"].cls \in {"JSONDecodeError", "ValueError", "KeyError",
                                                "ParseError"}
                     /\ op = "run" => pc["srv"] \in {"cLock", "cRecv", "cSend"})
  /\ [][ (Malformed(line) /\ op = "run" /\ step.ended = "raised")
           => /\ pc'["srv"] \in {"cLock", "cRecv", "cSend", "idle"}
              /\ result'["srv"] = result["srv"]
              /\ step' = step
              /\ outPipe' <= outPipe ]_vars

\* C13, witness: the second step of a Run loop read a line without "type";
\* the loop has left with ValueError and is at the end of its close().
C13_Witness ==
  /\ line.kind = "object"
  /\ line.type = "absent"
  /\ step.ended = "raised"
  /\ count.steps = 2
  /\ op = "run"
  /\ pc["srv"] = "cSend"
  /\ result["srv"].cls = "ValueError"
  /\ receiver = "closed"

\* C14, as claimed: a handle changes only from None to open and from open to
\* closed, so each FIFO is opened at most once and a closed handle is never
\* reopened; and a send, receive or serveOnce call that began after a close()
\* closed a handle reads nothing from the inbound FIFO and writes nothing to
\* the outbound FIFO.
C14_OpenedOnceNoIOAfterClose ==
  [][ /\ receiver' # receiver
           => \/ receiver = None /\ receiver' = "open"
              \/ receiver = "open" /\ receiver' = "closed"
      /\ sender' # sender
           => \/ sender = None /\ sender' = "open"
              \/ sender = "open" /\ sender' = "closed"
      /\ step.afterClose => ~(ReceiveLine \/ SendWrite) ]_vars

\* C15, as claimed: whenever no call is in progress on either thread, either
\* both handles have been opened or neither has.
C15_NoHalfOpen ==
  (pc["srv"] = "idle" /\ pc["cls"] = "idle") => (receiver = None <=> sender = None)

\* C16: Run leaves its loop only into its close(), and ends only at the end
\* of that close(), with no handle left open and the lock free; when Run
\* comes to its close() the serving thread does not hold the lock, and a
\* thread that holds it is inside its own close(), which does not block.
C16_RunEndsClosed ==
  /\ []((op = "run" /\ pc["srv"] = "cLock")
          => /\ lock # "srv"
             /\ lock = "cls" => pc["cls"] \in {"cRecv", "cSend"})
  /\ [][ /\ (op = "run" /\ InStep /\ ~InStep' /\ pc'["srv"] # "lock")
             => pc'["srv"] = "cLock"
         /\ (op = "run" /\ op' # "run")
              => /\ pc["srv"] = "cSend"
                 /\ receiver' # "open"
                 /\ sender' # "open"
                 /\ lock' = "free" ]_vars

\* C16, witness: Run was stopped from outside in the middle of a step, with
\* both handles open; its close() has closed the receiver and comes to the
\* sender.
C16_Witness ==
  /\ op = "run"
  /\ pc["srv"] = "cSend"
  /\ step.ended = "interrupted"
  /\ result["srv"].cls = "KeyboardInterrupt"
  /\ receiver = "closed"
  /\ sender = "open"

\* C17: a call for an endpoint type that has a handler invoked that handler,
\* once, whether it returned or failed; when the handler returned, the call
\* made no abort, did not raise, and its response is the one it was given, as
\* the handler left it.
C17_HandlerCalledOnce ==
  (call.type # None /\ call.registered)
    => /\ call.invoked = <<impls[call.type]>>
       /\ call.fail = "none"
            => /\ call.aborts = <<>>
               /\ ~call.raised
               /\ call.resp = call.fill

\* C17, witness: a call whose handler set score and returned has returned
\* that response, after a registration for the same type was refused.
C17_Witness ==
  /\ call.registered
  /\ Len(call.invoked) = 1
  /\ call.fail = "none"
  /\ call.resp["score"] = 1
  /\ lastReg.raised = "AlreadyRegistered"
  /\ lastReg.type = call.type

\* A serveOnce step holds the lock and waits in the select() of its receive().
WaitingForLine == InServe /\ lock = "srv" /\ pc["srv"] = "select" /\ io = "receive"

\* C18: while a step waits for its request line, a close() on the other
\* thread is not past its "with self.lock:"; such a close() stays there at
\* every step, and the wait ends only when the inbound FIFO holds a line or
\* is at end-of-stream.
C18_CloseWaitsForLine ==
  /\ [](WaitingForLine => pc["cls"] \in {"idle", "cLock"})
  /\ [][ WaitingForLine
           => /\ pc["cls"] = "cLock" => pc'["cls"] = "cLock"
              /\ ~WaitingForLine' => (Len(inPipe) > 0 \/ peerIn = "closed") ]_vars

\* C18, witness: a close() on the other thread is at its "with self.lock:"
\* while a step of Run waits for a line on a FIFO that is empty and open.
C18_Witness ==
  /\ WaitingForLine
  /\ op = "run"
  /\ pc["cls"] = "cLock"
  /\ inPipe = <<>>
  /\ peerIn = "open"
  /\ receiver = "open"

\* C19: the receive() and send() of a serveOnce step run with timeout 0; no
\* step of serveOnce or Run ends with FIFOTimeoutError; and a step that is
\* blocked (in an open the peer has not matched, or in a select() with no
\* line to read or no room to write) stays where it is at every step.
C19_ServeNeverTimesOut ==
  /\ []((InServe /\ io # "none") => timeout = 0)
  /\ [][ InServe
           => /\ result'["srv"].cls # "FIFOTimeoutError"
              /\ (lock = "srv" /\ Blocked) => (pc'["srv"] = pc["srv"] /\ op' = op) ]_vars

\* C19, witness: a serveOnce step is blocked in the select() of its send(),
\* with timeout 0, because the outbound FIFO is full.
C19_Witness ==
  /\ op = "serveOnce"
  /\ pc["srv"] = "select"
  /\ io = "send"
  /\ timeout = 0
  /\ outPipe = OutCap
  /\ lock = "srv"

\* C20: a close() that goes past a handle that is None leaves it None, and
\* ends without failing; an _ensureOpen that goes past a handle that is None
\* has opened it, whatever close() calls were made before; and a call fails with the ValueError of a
\* closed file only when a handle is closed.
C20_CloseBeforeOpen ==
  /\ []((result["srv"].cls = "ValueError" /\ ~step.parsed)
          => (receiver = "closed" \/ sender = "closed"))
  /\ [][ /\ \A t \in Threads :
              /\ (pc[t] = "cRecv" /\ pc'[t] # "cRecv" /\ receiver = None)
                   => (receiver' = None /\ pc'[t] = "cSend")
              /\ (pc[t] = "cSend" /\ pc'[t] # "cSend" /\ sender = None)
                   => (sender' = None /\ result'[t].cls # "OSError")
         /\ (pc["srv"] = "openIn" /\ pc'["srv"] # "openIn" /\ receiver = None)
              => receiver' = "open"
         /\ (pc["srv"] = "openOut" /\ pc'["srv"] # "openOut" /\ sender = None)
              => sender' = "open" ]_vars

\* C20, witness: a close() was made and has returned, both handles are open,
\* and a serveOnce step that began with no handle closed has read its line
\* and written its response.
C20_Witness ==
  /\ pc["cls"] = "idle"
  /\ result["cls"] = Ok
  /\ count.closes = 1
  /\ receiver = "open"
  /\ sender = "open"
  /\ ~step.afterClose
  /\ step.ended = "ok"
  /\ Len(step.wrote) = 1

====
